---- MODULE Spec2Model ----
(***************************************************************************)
(* Pomodoro timer: the TimerModel state machine (models/TimerModel.ts),    *)
(* the TimerSettings record (models/TimerSettings.ts), the TimerViewModel  *)
(* that drives them (views/MainWindow/TimerViewModel.ts), the in-memory    *)
(* timer service (FakeTimerService) and the settings storage; and the      *)
(* settings editor (viewModels/SettingsViewModel.ts) with its drafts.      *)
(***************************************************************************)
EXTENDS Integers, FiniteSets, Sequences, TLC

(* ---------------------------- bounds ----------------------------------- *)

\* largest duration, in minutes, that is stored or passed to updateSettings
MaxMinutes == 2

\* number of timer ids the timer service hands out before start() is cut off
MaxTimerId == 2

\* the long work duration, in minutes, of the countdown watched on the display
MaxDisplayMinutes == 100

(* ------------------------- program constants --------------------------- *)

SecondsPerMinute == 60

\* the value of _timerId when no timer is registered (null)
Null == 0

\* FakeTimerService.nextId starts at 1
FirstTimerId == 1

(* --------------------------- TimerSettings ----------------------------- *)

Keys == {"workDuration", "restDuration"}

\* the numbers that callers pass as durations: 0 is the invalid one
Inputs == 0..MaxMinutes

\* mutant: the schema asks for nonnegative durations only
TimerSettingsSchemaOk_NonNegative(s) ==
  /\ s.workDuration \in Int /\ s.workDuration >= 0
  /\ s.restDuration \in Int /\ s.restDuration >= 0

\* z.number().positive().int() on both fields
TimerSettingsSchemaOk(s) ==
  /\ s.workDuration \in Int /\ s.workDuration > 0
  /\ s.restDuration \in Int /\ s.restDuration > 0

ValidSettings ==
  {s \in [workDuration : Inputs, restDuration : Inputs] : TimerSettingsSchemaOk(s)}

\* Partial<{workDuration, restDuration}>: a record over any subset of the keys
Partials == UNION {[D -> Inputs] : D \in SUBSET Keys}

\* updateSettings(settings, updates): merge, then safeParse; null on failure
updateSettingsModel(settings, updates) ==
  LET updated == [k \in Keys |->
                    IF k \in DOMAIN updates THEN updates[k] ELSE settings[k]]
  IN  IF TimerSettingsSchemaOk(updated)
        THEN [success |-> TRUE, data |-> updated]
        ELSE [success |-> FALSE, data |-> settings]

(* ------------------- numbers that need not be whole -------------------- *)

\* A number given to the schema or to a setter of the settings editor is
\* modelled by the integer number * Denominator, so that the fractions with
\* this denominator are values too: with 2, the number 3 stands for 1.5
Denominator == 2

Numbers == (-Denominator)..(MaxMinutes * Denominator)

\* the number that a whole number of minutes is
toNumber(i) == i * Denominator

isInteger(n) == n % Denominator = 0

\* the value of a TimerSettings | null that is null
NoSettings == [workDuration |-> 0, restDuration |-> 0]

\* mutant: the field schema lets zero through
numberSchemaOk_NonNegative(n) == n >= 0 /\ isInteger(n)

\* mutant: the field schema lets fractions through
numberSchemaOk_NotInt(n) == n > 0

\* z.number().positive().int() on one field
numberSchemaOk(n) == n > 0 /\ isInteger(n)

\* TimerSettingsSchema.safeParse(raw): success with the record as
\* TimerSettings, or failure
TimerSettingsSchemaSafeParse(raw) ==
  LET success == \A k \in Keys : numberSchemaOk(raw[k])
  IN  [success |-> success,
       data |-> IF success
                  THEN [k \in Keys |-> raw[k] \div Denominator]
                  ELSE NoSettings]

\* Partial<{workDuration: number, restDuration: number}>
NumberPartials == UNION {[D -> Numbers] : D \in SUBSET Keys}

\* mutant: the fields given are merged only when both are given
updateSettingsNumbers_AllOrNothing(settings, updates) ==
  LET updated == [k \in Keys |->
                    IF DOMAIN updates = Keys
                      THEN updates[k] ELSE toNumber(settings[k])]
  IN  TimerSettingsSchemaSafeParse(updated)

\* updateSettings(settings, updates) on numbers of any kind: merge, then
\* safeParse; null on failure
updateSettingsNumbers(settings, updates) ==
  LET updated == [k \in Keys |->
                    IF k \in DOMAIN updates
                      THEN updates[k] ELSE toNumber(settings[k])]
  IN  TimerSettingsSchemaSafeParse(updated)

(* ----------------------------- TimerModel ------------------------------ *)

\* mutant: the mode is ignored and the work duration is always used
calculateDurationSeconds_AlwaysWork(settings, mode) ==
  settings.workDuration * SecondsPerMinute

calculateDurationSeconds(settings, mode) ==
  LET durationMinutes ==
        IF mode = "WORK" THEN settings.workDuration ELSE settings.restDuration
  IN  durationMinutes * SecondsPerMinute

\* mutant: the initial countdown is loaded from the rest duration
createInitialModel_FromRest(settings) ==
  [remainingSeconds |-> calculateDurationSeconds(settings, "REST"),
   currentMode |-> "WORK",
   state |-> "STOPPED"]

createInitialModel(settings) ==
  [remainingSeconds |-> calculateDurationSeconds(settings, "WORK"),
   currentMode |-> "WORK",
   state |-> "STOPPED"]

\* mutant: start reports a change also when the timer is already running
startModel_AlwaysChanged(timerModel) ==
  [result |-> [timerModel EXCEPT !.state = "RUNNING"], hasChanged |-> TRUE]

startModel(timerModel) ==
  IF timerModel.state = "RUNNING"
    THEN [result |-> timerModel, hasChanged |-> FALSE]
    ELSE [result |-> [timerModel EXCEPT !.state = "RUNNING"], hasChanged |-> TRUE]

\* mutant: stop reports a change and leaves the model running
stopModel_KeepsRunning(timerModel) ==
  IF timerModel.state = "STOPPED"
    THEN [result |-> timerModel, hasChanged |-> FALSE]
    ELSE [result |-> timerModel, hasChanged |-> TRUE]

stopModel(timerModel) ==
  IF timerModel.state = "STOPPED"
    THEN [result |-> timerModel, hasChanged |-> FALSE]
    ELSE [result |-> [timerModel EXCEPT !.state = "STOPPED"], hasChanged |-> TRUE]

\* mutant: reset goes back to the work mode
resetModel_ToWork(timerModel, settings) ==
  [timerModel EXCEPT
     !.currentMode = "WORK",
     !.state = "STOPPED",
     !.remainingSeconds = calculateDurationSeconds(settings, "WORK")]

\* mutant: reset reloads the remaining time and leaves the state alone
resetModel_KeepsState(timerModel, settings) ==
  [timerModel EXCEPT
     !.remainingSeconds = calculateDurationSeconds(settings, timerModel.currentMode)]

\* mutant: reset stops the timer but keeps the remaining time
resetModel_KeepsRemaining(timerModel, settings) ==
  [timerModel EXCEPT !.state = "STOPPED"]

resetModel(timerModel, settings) ==
  [timerModel EXCEPT
     !.state = "STOPPED",
     !.remainingSeconds = calculateDurationSeconds(settings, timerModel.currentMode)]

\* mutant: tick counts down only while the timer is running
tickModel_OnlyRunning(timerModel) ==
  IF timerModel.remainingSeconds = 0 \/ timerModel.state # "RUNNING"
    THEN timerModel
    ELSE [timerModel EXCEPT !.remainingSeconds = timerModel.remainingSeconds - 1]

tickModel(timerModel) ==
  IF timerModel.remainingSeconds = 0
    THEN timerModel
    ELSE [timerModel EXCEPT !.remainingSeconds = timerModel.remainingSeconds - 1]

\* mutant: the transition changes mode only when the countdown is at zero
transitionToNextMode_OnlyAtZero(timerModel, settings) ==
  LET nextMode == IF timerModel.remainingSeconds # 0
                    THEN timerModel.currentMode
                    ELSE IF timerModel.currentMode = "WORK" THEN "REST" ELSE "WORK"
  IN  [timerModel EXCEPT
         !.currentMode = nextMode,
         !.state = "STOPPED",
         !.remainingSeconds = calculateDurationSeconds(settings, nextMode)]

\* mutant: the transition does not stop the timer
transitionToNextMode_KeepsRunning(timerModel, settings) ==
  LET nextMode == IF timerModel.currentMode = "WORK" THEN "REST" ELSE "WORK"
  IN  [timerModel EXCEPT
         !.currentMode = nextMode,
         !.remainingSeconds =
            (IF nextMode = "WORK"
               THEN settings.workDuration ELSE settings.restDuration) * SecondsPerMinute]

\* mutant: the new duration is computed from the mode being left
transitionToNextMode_StaleDuration(timerModel, settings) ==
  LET nextMode == IF timerModel.currentMode = "WORK" THEN "REST" ELSE "WORK"
  IN  [timerModel EXCEPT
         !.currentMode = nextMode,
         !.state = "STOPPED",
         !.remainingSeconds =
            (IF timerModel.currentMode = "WORK"
               THEN settings.workDuration ELSE settings.restDuration) * SecondsPerMinute]

transitionToNextMode(timerModel, settings) ==
  LET nextMode == IF timerModel.currentMode = "WORK" THEN "REST" ELSE "WORK"
  IN  [timerModel EXCEPT
         !.currentMode = nextMode,
         !.state = "STOPPED",
         !.remainingSeconds = calculateDurationSeconds(settings, nextMode)]

(* ------------------------------- state --------------------------------- *)

\* totalSeconds(mode, settings) as the specification defines it
TotalSeconds(mode, settings) ==
  IF mode = "WORK" THEN settings.workDuration * 60 ELSE settings.restDuration * 60

OtherMode(mode) == IF mode = "WORK" THEN "REST" ELSE "WORK"

VARIABLES
  vm,            \* the TimerViewModel's fields
  timerService,  \* FakeTimerService: the registered ids and nextId
  storage,       \* the settings the storage holds
  lastOp,        \* the operation that produced this state
  wasRunning,    \* whether the timer was RUNNING when that operation began
  loadedSeconds, \* totalSeconds of the mode under the settings in force when
                 \* remainingSeconds was last recomputed
  cycle,         \* the countdown in progress since an undisturbed start()
  changedNext,   \* the last operation was an updateSettings that changed,
                 \* while RUNNING, the duration of the mode after the one
                 \* counting down, or the tick to zero that directly followed
                 \* such an updateSettings
  wasStale,      \* the last operation was a reset() that began RUNNING with
                 \* a countdown loaded under a duration no longer current
  notified,      \* the notify() calls of the last operation, in order, each
                 \* with the property values an observer reads at that moment
  requested,     \* the settings the last operation asked for, when it was an
                 \* updateSettings whose merged record is valid
  outcome,       \* how the last operation ended for its caller:
                 \* "returned" (nothing reported) or "threw"
  disposed,      \* the TimerViewModel has been disposed
  editor,        \* the SettingsViewModel's fields
  editorCall,    \* the last call made on the SettingsViewModel, with what
                 \* it was given and what it gave back
  settingsCall,  \* the last call of a TimerSettings function, with what it
                 \* was given and what it gave back
  modelCall      \* the last call of a TimerModel function, with what it was
                 \* given and what it gave back

timerVars == <<vm, timerService, storage, lastOp, wasRunning, loadedSeconds,
               cycle, changedNext, wasStale, notified, requested, outcome>>

\* what no operation of the running timer touches
elsewhere == <<disposed, editor, editorCall, settingsCall, modelCall>>

vars == <<vm, timerService, storage, lastOp, wasRunning, loadedSeconds, cycle,
          changedNext, wasStale, notified, requested, outcome,
          disposed, editor, editorCall, settingsCall, modelCall>>

NoCycle == [on |-> FALSE, mode |-> "WORK", ticks |-> 0]

\* no settings were asked for
NoRequest == [workDuration |-> 0, restDuration |-> 0]

\* the record updateSettings is asked to install: the fields given, over the
\* current settings
Merged(settings, updates) ==
  [k \in Keys |-> IF k \in DOMAIN updates THEN updates[k] ELSE settings[k]]

\* the settings field that holds the duration of a mode
DurationKey(mode) == IF mode = "WORK" THEN "workDuration" ELSE "restDuration"

\* the countdown in progress was loaded under another duration than the
\* current settings give its mode
Stale ==
  vm.state = "RUNNING" /\ loadedSeconds # TotalSeconds(vm.currentMode, vm.settings)

(* --------------------------- timer service ----------------------------- *)

\* startTimer: const id = this.nextId++; this.timers.set(id, callback)
startTimer(svc) ==
  [svc |-> [timers |-> svc.timers \cup {svc.nextId}, nextId |-> svc.nextId + 1],
   id |-> svc.nextId]

\* mutant: the registration survives its cancellation
stopTimer_KeepsTimer(svc, timerId) == svc

\* stopTimer: this.timers.delete(timerId)
stopTimer(svc, timerId) == [svc EXCEPT !.timers = svc.timers \ {timerId}]

(* ------------------------ settings storage ----------------------------- *)

\* load(): the stored settings, validated
storageLoad(st) == st

\* mutant: save writes whatever it is given
storageSave_Unvalidated(st, settings) == settings

\* mutant: save validates and writes nothing
storageSave_Drops(st, settings) == st

\* save(settings): TimerSettingsSchema.parse, then write
storageSave(st, settings) == IF TimerSettingsSchemaOk(settings) THEN settings ELSE st

\* save(settings) while the backend takes no writes: each set_int reports
\* failure by its boolean result, which save ignores, so save returns normally
\* and the store keeps what it had
storageSaveFailing(st, settings) == st

(* ---------------------------- TimerViewModel --------------------------- *)

\* _syncFromModel: copy the model's fields into the property fields
syncFromModel(v) ==
  [v EXCEPT !.remainingSeconds = v.model.remainingSeconds,
            !.currentMode = v.model.currentMode,
            !.state = v.model.state]

\* initialize(timerService, storage)
initialize(st) ==
  LET settings == storageLoad(st)
      model == createInitialModel(settings)
  IN  syncFromModel([model |-> model,
                     remainingSeconds |-> 0,
                     currentMode |-> "WORK",
                     state |-> "STOPPED",
                     settings |-> settings,
                     timerId |-> Null])

\* mutant: the transition leaves the timer id in place
vmTransitionToNextMode_KeepId(v) ==
  syncFromModel([v EXCEPT !.model = transitionToNextMode(v.model, v.settings)])

\* mutant: the duration of the next mode is taken from one-minute settings
\* instead of the settings in force
vmTransitionToNextMode_MinimalSettings(v) ==
  LET cleared == [v EXCEPT !.timerId = Null]
  IN  syncFromModel([cleared EXCEPT
                       !.model = transitionToNextMode(
                                   cleared.model,
                                   [workDuration |-> 1, restDuration |-> 1])])

\* _transitionToNextMode: clear the timer id, transition the model, sync
vmTransitionToNextMode(v) ==
  LET cleared == [v EXCEPT !.timerId = Null]
  IN  syncFromModel([cleared EXCEPT
                       !.model = transitionToNextMode(cleared.model, cleared.settings)])

\* mutant: reaching zero stops the recurrence without the mode transition
vmTick_NoTransition(v) ==
  IF v.remainingSeconds > 0
    THEN LET ticked == syncFromModel([v EXCEPT !.model = tickModel(v.model)])
         IN  IF ticked.remainingSeconds = 0
               THEN [vm |-> ticked, shouldContinue |-> FALSE]
               ELSE [vm |-> ticked, shouldContinue |-> TRUE]
    ELSE [vm |-> v, shouldContinue |-> FALSE]

\* mutant: the callback never asks to be called again
vmTick_NeverContinues(v) ==
  IF v.remainingSeconds > 0
    THEN LET ticked == syncFromModel([v EXCEPT !.model = tickModel(v.model)])
         IN  IF ticked.remainingSeconds = 0
               THEN [vm |-> vmTransitionToNextMode(ticked), shouldContinue |-> FALSE]
               ELSE [vm |-> ticked, shouldContinue |-> FALSE]
    ELSE [vm |-> v, shouldContinue |-> FALSE]

\* _tick: the callback registered with the timer service; its boolean result
\* tells the service whether to call again
vmTick(v) ==
  IF v.remainingSeconds > 0
    THEN LET ticked == syncFromModel([v EXCEPT !.model = tickModel(v.model)])
         IN  IF ticked.remainingSeconds = 0
               THEN [vm |-> vmTransitionToNextMode(ticked), shouldContinue |-> FALSE]
               ELSE [vm |-> ticked, shouldContinue |-> TRUE]
    ELSE [vm |-> v, shouldContinue |-> FALSE]

\* this.notify(property): what a handler connected to notify::property reads
notify(property, v) ==
  [property |-> property,
   remainingSeconds |-> v.remainingSeconds,
   currentMode |-> v.currentMode,
   state |-> v.state]

\* the notify() calls of start() and of stop(), made after the sync
startStopNotifications(v) ==
  <<notify("state", v), notify("start-stop-label", v)>>

\* the notify() calls at the end of _transitionToNextMode
transitionNotifications(v) ==
  <<notify("current-mode", v), notify("mode-label", v), notify("mode-icon", v),
    notify("state", v), notify("start-stop-label", v),
    notify("remaining-seconds", v), notify("display-time", v)>>

\* the notify() calls of _tick: two right after the decrement, then those of
\* _transitionToNextMode when the decrement reached zero
tickNotifications(v) ==
  IF v.remainingSeconds > 0
    THEN LET ticked == syncFromModel([v EXCEPT !.model = tickModel(v.model)])
         IN  <<notify("remaining-seconds", ticked), notify("display-time", ticked)>>
             \o (IF ticked.remainingSeconds = 0
                   THEN transitionNotifications(vmTransitionToNextMode(ticked))
                   ELSE <<>>)
    ELSE <<>>

\* the notify() calls at the end of reset()
resetNotifications(v) ==
  <<notify("state", v), notify("start-stop-label", v),
    notify("remaining-seconds", v), notify("display-time", v)>>

\* the notify() calls of updateSettings: only in the STOPPED branch
updateSettingsNotifications(v) ==
  IF v.state = "STOPPED"
    THEN <<notify("remaining-seconds", v), notify("display-time", v)>>
    ELSE <<>>

\* no partial at all
NoUpdates == [k \in {} |-> 0]

\* a SettingsViewModel as constructed: both drafts 0, nothing loaded
NewEditor ==
  [workDuration |-> 0, restDuration |-> 0, originalSettings |-> NoSettings]

\* nothing has been called on the SettingsViewModel yet.  A call is recorded
\* with the number or the settings it was given, the fields before it,
\* whether it threw, the settings save() returned, the answer of a validate
\* call, the number of settings-changed signals it emitted, and the settings
\* last given to load() or returned by save() with the name of that call
NoEditorCall ==
  [op |-> "new", value |-> 0, settings |-> NoSettings, before |-> NewEditor,
   threw |-> FALSE, returned |-> NoSettings, accepted |-> FALSE,
   emitted |-> 0, kept |-> NoSettings, keptBy |-> "none"]

\* no TimerSettings function has been called yet
NoSettingsCall ==
  [fn |-> "none", raw |-> NoSettings, settings |-> NoSettings,
   updates |-> NoUpdates, result |-> [success |-> FALSE, data |-> NoSettings],
   settingsAfter |-> NoSettings]

\* no TimerModel function has been called yet
NoModelCall ==
  [fn |-> "none", timerModel |-> createInitialModel(NoSettings),
   settings |-> NoSettings, result |-> createInitialModel(NoSettings),
   timerModelAfter |-> createInitialModel(NoSettings)]

Init ==
  /\ storage \in ValidSettings
  /\ vm = initialize(storage)
  /\ timerService = [timers |-> {}, nextId |-> FirstTimerId]
  /\ lastOp = "initialize"
  /\ wasRunning = FALSE
  /\ loadedSeconds = TotalSeconds("WORK", storage)
  /\ cycle = NoCycle
  /\ changedNext = FALSE
  /\ wasStale = FALSE
  /\ notified = <<>>
  /\ requested = NoRequest
  /\ outcome = "returned"
  /\ disposed = FALSE
  /\ editor = NewEditor
  /\ editorCall = NoEditorCall
  /\ settingsCall = NoSettingsCall
  /\ modelCall = NoModelCall

\* start()
start ==
  /\ timerService.nextId <= MaxTimerId
  /\ LET r == startModel(vm.model)
     IN  IF ~r.hasChanged
           THEN /\ UNCHANGED <<vm, timerService, cycle>>
                /\ notified' = <<>>
           ELSE LET reg == startTimer(timerService)
                    synced == syncFromModel([vm EXCEPT !.model = r.result])
                IN  /\ vm' = [synced EXCEPT !.timerId = reg.id]
                    /\ timerService' = reg.svc
                    /\ notified' = startStopNotifications(synced)
                    /\ cycle' = IF vm.remainingSeconds =
                                     calculateDurationSeconds(vm.settings, vm.currentMode)
                                  THEN [on |-> TRUE, mode |-> vm.currentMode, ticks |-> 0]
                                  ELSE NoCycle
  /\ lastOp' = "start"
  /\ wasRunning' = (vm.state = "RUNNING")
  /\ wasStale' = FALSE
  /\ UNCHANGED elsewhere
  /\ outcome' = "returned"
  /\ changedNext' = FALSE
  /\ requested' = NoRequest
  /\ UNCHANGED <<storage, loadedSeconds>>

\* mutant: stop() clears the handle without cancelling the timer
stop_NoCancel ==
  /\ LET r == stopModel(vm.model)
     IN  IF ~r.hasChanged
           THEN /\ UNCHANGED <<vm, timerService>>
                /\ notified' = <<>>
           ELSE /\ vm' = [syncFromModel([vm EXCEPT !.model = r.result])
                            EXCEPT !.timerId = Null]
                /\ timerService' = timerService
                /\ notified' = startStopNotifications(vm')
  /\ lastOp' = "stop"
  /\ wasRunning' = (vm.state = "RUNNING")
  /\ wasStale' = FALSE
  /\ UNCHANGED elsewhere
  /\ outcome' = "returned"
  /\ cycle' = NoCycle
  /\ changedNext' = FALSE
  /\ requested' = NoRequest
  /\ UNCHANGED <<storage, loadedSeconds>>

\* stop()
stop ==
  /\ LET r == stopModel(vm.model)
     IN  IF ~r.hasChanged
           THEN /\ UNCHANGED <<vm, timerService>>
                /\ notified' = <<>>
           ELSE LET synced == syncFromModel([vm EXCEPT !.model = r.result])
                IN  /\ IF synced.timerId # Null
                          THEN /\ timerService' = stopTimer(timerService, synced.timerId)
                               /\ vm' = [synced EXCEPT !.timerId = Null]
                          ELSE /\ timerService' = timerService
                               /\ vm' = synced
                    /\ notified' = startStopNotifications(synced)
  /\ lastOp' = "stop"
  /\ wasRunning' = (vm.state = "RUNNING")
  /\ wasStale' = FALSE
  /\ UNCHANGED elsewhere
  /\ outcome' = "returned"
  /\ cycle' = NoCycle
  /\ changedNext' = FALSE
  /\ requested' = NoRequest
  /\ UNCHANGED <<storage, loadedSeconds>>

\* FakeTimerService.tick(timerId): run the callback registered under timerId,
\* if there is one, and drop the registration when it returns false
tick(timerId) ==
  /\ IF timerId \notin timerService.timers
       THEN /\ UNCHANGED <<vm, timerService, cycle, loadedSeconds>>
            /\ notified' = <<>>
            /\ lastOp' = "tickUnregistered"
       ELSE LET r == vmTick(vm)
            IN  /\ vm' = r.vm
                /\ timerService' = IF ~r.shouldContinue
                                     THEN stopTimer(timerService, timerId)
                                     ELSE timerService
                /\ cycle' = IF cycle.on
                              THEN [cycle EXCEPT !.ticks = cycle.ticks + 1]
                              ELSE cycle
                /\ loadedSeconds' =
                     IF vm.remainingSeconds = 1
                       THEN TotalSeconds(OtherMode(vm.currentMode), vm.settings)
                       ELSE loadedSeconds
                /\ notified' = tickNotifications(vm)
                /\ lastOp' = "tick"
  /\ wasRunning' = (vm.state = "RUNNING")
  /\ wasStale' = FALSE
  /\ UNCHANGED elsewhere
  /\ outcome' = "returned"
  /\ changedNext' = /\ changedNext
                    /\ lastOp = "updateSettings"
                    /\ timerId = vm.timerId
                    /\ vm.remainingSeconds = 1
  /\ requested' = NoRequest
  /\ UNCHANGED storage

\* skip()
skip ==
  /\ IF vm.timerId # Null
       THEN /\ timerService' = stopTimer(timerService, vm.timerId)
            /\ vm' = vmTransitionToNextMode([vm EXCEPT !.timerId = Null])
       ELSE /\ timerService' = timerService
            /\ vm' = vmTransitionToNextMode(vm)
  /\ notified' = transitionNotifications(vm')
  /\ lastOp' = "skip"
  /\ wasRunning' = (vm.state = "RUNNING")
  /\ wasStale' = FALSE
  /\ UNCHANGED elsewhere
  /\ outcome' = "returned"
  /\ changedNext' = FALSE
  /\ requested' = NoRequest
  /\ loadedSeconds' = TotalSeconds(OtherMode(vm.currentMode), vm.settings)
  /\ cycle' = NoCycle
  /\ UNCHANGED storage

\* mutant: reset() restores the duration the countdown was loaded with
reset_CachedTotal ==
  /\ LET cleared == IF vm.timerId # Null THEN [vm EXCEPT !.timerId = Null] ELSE vm
         restored == [resetModel(cleared.model, cleared.settings)
                        EXCEPT !.remainingSeconds = loadedSeconds]
     IN  /\ timerService' = IF vm.timerId # Null
                              THEN stopTimer(timerService, vm.timerId)
                              ELSE timerService
         /\ vm' = syncFromModel([cleared EXCEPT !.model = restored])
  /\ notified' = resetNotifications(vm')
  /\ lastOp' = "reset"
  /\ wasRunning' = (vm.state = "RUNNING")
  /\ wasStale' = Stale
  /\ UNCHANGED elsewhere
  /\ outcome' = "returned"
  /\ changedNext' = FALSE
  /\ requested' = NoRequest
  /\ loadedSeconds' = TotalSeconds(vm.currentMode, vm.settings)
  /\ cycle' = NoCycle
  /\ UNCHANGED storage

\* reset()
reset ==
  /\ LET cleared == IF vm.timerId # Null THEN [vm EXCEPT !.timerId = Null] ELSE vm
     IN  /\ timerService' = IF vm.timerId # Null
                              THEN stopTimer(timerService, vm.timerId)
                              ELSE timerService
         /\ vm' = syncFromModel([cleared EXCEPT
                                   !.model = resetModel(cleared.model, cleared.settings)])
  /\ notified' = resetNotifications(vm')
  /\ lastOp' = "reset"
  /\ wasRunning' = (vm.state = "RUNNING")
  /\ wasStale' = Stale
  /\ UNCHANGED elsewhere
  /\ outcome' = "returned"
  /\ changedNext' = FALSE
  /\ requested' = NoRequest
  /\ loadedSeconds' = TotalSeconds(vm.currentMode, vm.settings)
  /\ cycle' = NoCycle
  /\ UNCHANGED storage

\* mutant: the remaining time is recomputed only when the settings differ
\* from the ones in force
vmApplySettings_OnlyIfChanged(v, newSettings) ==
  LET withSettings == [v EXCEPT !.settings = newSettings]
  IN  IF withSettings.state = "STOPPED" /\ newSettings # v.settings
        THEN syncFromModel([withSettings EXCEPT
               !.model.remainingSeconds =
                  calculateDurationSeconds(withSettings.settings,
                                           withSettings.model.currentMode)])
        ELSE withSettings

\* mutant: the remaining time is never recomputed
vmApplySettings_Never(v, newSettings) == [v EXCEPT !.settings = newSettings]

\* mutant: the remaining time is recomputed also while the timer is running
vmApplySettings_Always(v, newSettings) ==
  LET withSettings == [v EXCEPT !.settings = newSettings]
  IN  syncFromModel([withSettings EXCEPT
        !.model.remainingSeconds =
           calculateDurationSeconds(withSettings.settings,
                                    withSettings.model.currentMode)])

\* what updateSettings does to the view model once the updates are validated
vmApplySettings(v, newSettings) ==
  LET withSettings == [v EXCEPT !.settings = newSettings]
  IN  IF withSettings.state = "STOPPED"
        THEN syncFromModel([withSettings EXCEPT
               !.model.remainingSeconds =
                  calculateDurationSeconds(withSettings.settings,
                                           withSettings.model.currentMode)])
        ELSE withSettings

\* updateSettings(updates)
updateSettings(updates) ==
  /\ LET parsed == updateSettingsModel(vm.settings, updates)
     IN  IF ~parsed.success
           THEN /\ UNCHANGED <<vm, storage, loadedSeconds>>
                /\ notified' = <<>>
                /\ changedNext' = FALSE
                /\ requested' = NoRequest
                /\ lastOp' = "updateSettingsRejected"
           ELSE /\ vm' = vmApplySettings(vm, parsed.data)
                /\ storage' = storageSave(storage, parsed.data)
                /\ loadedSeconds' = IF vm.state = "STOPPED"
                                      THEN TotalSeconds(vm.currentMode, parsed.data)
                                      ELSE loadedSeconds
                /\ notified' = updateSettingsNotifications(vm')
                /\ changedNext' =
                     /\ vm.state = "RUNNING"
                     /\ parsed.data[DurationKey(OtherMode(vm.currentMode))]
                          # vm.settings[DurationKey(OtherMode(vm.currentMode))]
                /\ requested' = Merged(vm.settings, updates)
                /\ lastOp' = "updateSettings"
  /\ wasRunning' = (vm.state = "RUNNING")
  /\ wasStale' = FALSE
  /\ UNCHANGED elsewhere
  /\ outcome' = "returned"
  /\ cycle' = NoCycle
  /\ UNCHANGED timerService

\* the ids the timer service has handed out so far
IssuedIds == FirstTimerId..(timerService.nextId - 1)

Next ==
  \/ start
  \/ stop
  \/ \E timerId \in IssuedIds : tick(timerId)
  \/ skip
  \/ reset
  \/ \E updates \in Partials : updateSettings(updates)

Spec == Init /\ [][Next]_vars

(* --------------------- the store written by others, or failing --------- *)

\* the records a caller can hand to storage.save
SaveInputs == [workDuration : Inputs, restDuration : Inputs]

\* mutant: a failed save puts the controller back on its old settings
updateSettingsSaveFails_RollsBack(updates) ==
  /\ LET parsed == updateSettingsModel(vm.settings, updates)
     IN  /\ parsed.success
         /\ vm' = vm
         /\ storage' = storageSaveFailing(storage, parsed.data)
         /\ loadedSeconds' = loadedSeconds
         /\ notified' = <<>>
         /\ changedNext' = FALSE
         /\ requested' = Merged(vm.settings, updates)
  /\ lastOp' = "updateSettingsSaveFailed"
  /\ wasRunning' = (vm.state = "RUNNING")
  /\ wasStale' = FALSE
  /\ UNCHANGED elsewhere
  /\ outcome' = "returned"
  /\ cycle' = NoCycle
  /\ UNCHANGED timerService

\* updateSettings(updates) whose storage.save fails without throwing: the
\* same handler, with the store keeping what it had
updateSettingsSaveFails(updates) ==
  /\ LET parsed == updateSettingsModel(vm.settings, updates)
     IN  /\ parsed.success
         /\ vm' = vmApplySettings(vm, parsed.data)
         /\ storage' = storageSaveFailing(storage, parsed.data)
         /\ loadedSeconds' = IF vm.state = "STOPPED"
                               THEN TotalSeconds(vm.currentMode, parsed.data)
                               ELSE loadedSeconds
         /\ notified' = updateSettingsNotifications(vm')
         /\ changedNext' =
              /\ vm.state = "RUNNING"
              /\ parsed.data[DurationKey(OtherMode(vm.currentMode))]
                   # vm.settings[DurationKey(OtherMode(vm.currentMode))]
         /\ requested' = Merged(vm.settings, updates)
  /\ lastOp' = "updateSettingsSaveFailed"
  /\ wasRunning' = (vm.state = "RUNNING")
  /\ wasStale' = FALSE
  /\ UNCHANGED elsewhere
  /\ outcome' = "returned"
  /\ cycle' = NoCycle
  /\ UNCHANGED timerService

\* updateSettings(updates) whose storage.save throws: the settings are already
\* assigned, nothing is written, and the exception leaves the handler before
\* the STOPPED branch
updateSettingsSaveThrows(updates) ==
  /\ LET parsed == updateSettingsModel(vm.settings, updates)
     IN  /\ parsed.success
         /\ vm' = [vm EXCEPT !.settings = parsed.data]
         /\ changedNext' =
              /\ vm.state = "RUNNING"
              /\ parsed.data[DurationKey(OtherMode(vm.currentMode))]
                   # vm.settings[DurationKey(OtherMode(vm.currentMode))]
         /\ requested' = Merged(vm.settings, updates)
  /\ notified' = <<>>
  /\ lastOp' = "updateSettingsSaveFailed"
  /\ wasRunning' = (vm.state = "RUNNING")
  /\ wasStale' = FALSE
  /\ UNCHANGED elsewhere
  /\ outcome' = "threw"
  /\ cycle' = NoCycle
  /\ UNCHANGED <<timerService, storage, loadedSeconds>>

\* storage.save(settings) called directly, as the settings dialog and the
\* storage tests do: the schema's parse throws on an invalid record before
\* anything is written
storeSave(settings) ==
  /\ storage' = storageSave(storage, settings)
  /\ IF TimerSettingsSchemaOk(settings)
       THEN lastOp' = "storeSave" /\ outcome' = "returned"
       ELSE lastOp' = "storeSaveRejected" /\ outcome' = "threw"
  /\ wasRunning' = (vm.state = "RUNNING")
  /\ wasStale' = FALSE
  /\ UNCHANGED elsewhere
  /\ changedNext' = FALSE
  /\ requested' = NoRequest
  /\ notified' = <<>>
  /\ UNCHANGED <<vm, timerService, loadedSeconds, cycle>>

NextStore ==
  \/ Next
  \/ \E updates \in Partials : updateSettingsSaveFails(updates)
  \/ \E updates \in Partials : updateSettingsSaveThrows(updates)
  \/ \E settings \in SaveInputs : storeSave(settings)

SpecStore == Init /\ [][NextStore]_vars

(* ------------------------------ disposal ------------------------------- *)

\* mutant: disposal forgets the handle and leaves the timer registered
dispose_NoRemove ==
  /\ vm' = [vm EXCEPT !.timerId = Null]
  /\ disposed' = TRUE
  /\ lastOp' = "dispose"
  /\ wasRunning' = (vm.state = "RUNNING")
  /\ wasStale' = FALSE
  /\ outcome' = "returned"
  /\ changedNext' = FALSE
  /\ requested' = NoRequest
  /\ notified' = <<>>
  /\ cycle' = NoCycle
  /\ UNCHANGED <<timerService, storage, loadedSeconds, editor, editorCall,
                 settingsCall, modelCall>>

\* vfunc_dispose(): when a timer id is held, the timer source is removed and
\* the id is cleared; state and remainingSeconds stay as they are
dispose ==
  /\ IF vm.timerId # Null
       THEN /\ timerService' = stopTimer(timerService, vm.timerId)
            /\ vm' = [vm EXCEPT !.timerId = Null]
       ELSE UNCHANGED <<vm, timerService>>
  /\ disposed' = TRUE
  /\ lastOp' = "dispose"
  /\ wasRunning' = (vm.state = "RUNNING")
  /\ wasStale' = FALSE
  /\ outcome' = "returned"
  /\ changedNext' = FALSE
  /\ requested' = NoRequest
  /\ notified' = <<>>
  /\ cycle' = NoCycle
  /\ UNCHANGED <<storage, loadedSeconds, editor, editorCall, settingsCall,
                 modelCall>>

\* the view model takes calls until it is disposed; the timer service goes on
\* firing whatever is still registered with it
NextDispose ==
  \/ ~disposed /\ start
  \/ ~disposed /\ stop
  \/ \E timerId \in IssuedIds : tick(timerId)
  \/ ~disposed /\ skip
  \/ ~disposed /\ reset
  \/ \E updates \in Partials : ~disposed /\ updateSettings(updates)
  \/ dispose

SpecDispose == Init /\ [][NextDispose]_vars

(* ---------------------- the TimerSettings functions -------------------- *)

\* the store holds one minute for each mode
InitOneMinute ==
  /\ Init
  /\ storage = [workDuration |-> 1, restDuration |-> 1]

\* the records of numbers a caller can hand to the schema
RawSettings == [Keys -> Numbers]

\* TimerSettingsSchema.safeParse(raw)
parseSettings(raw) ==
  /\ settingsCall' = [fn |-> "parse", raw |-> raw, settings |-> NoSettings,
                      updates |-> NoUpdates,
                      result |-> TimerSettingsSchemaSafeParse(raw),
                      settingsAfter |-> NoSettings]
  /\ UNCHANGED <<timerVars, disposed, editor, editorCall, modelCall>>

\* updateSettings(settings, updates) of models/TimerSettings: the argument
\* is spread into a new record and is itself left as it was
callUpdateSettings(settings, updates) ==
  /\ settingsCall' = [fn |-> "updateSettings", raw |-> NoSettings,
                      settings |-> settings, updates |-> updates,
                      result |-> updateSettingsNumbers(settings, updates),
                      settingsAfter |-> settings]
  /\ UNCHANGED <<timerVars, disposed, editor, editorCall, modelCall>>

NextSettings ==
  \/ \E raw \in RawSettings : parseSettings(raw)
  \/ \E settings \in ValidSettings, updates \in NumberPartials :
       callUpdateSettings(settings, updates)

SpecSettings == InitOneMinute /\ [][NextSettings]_vars

(* ----------------------- a countdown left to run ----------------------- *)

\* the timer service fires a timer that is registered with it
tickLive == \E timerId \in timerService.timers : tick(timerId)

\* commands are issued only while the timer is stopped; while it runs, only
\* the timer service acts
NextCountdown ==
  \/ vm.state = "STOPPED" /\ start
  \/ vm.state = "STOPPED" /\ skip
  \/ vm.state = "STOPPED" /\ reset
  \/ \E updates \in Partials : vm.state = "STOPPED" /\ updateSettings(updates)
  \/ tickLive

\* a recurring timer keeps firing for as long as it is registered and its
\* callback returns true
SpecCountdown == Init /\ [][NextCountdown]_vars /\ WF_vars(tickLive)

(* ------------------- settings confirmed during a pause ----------------- *)

\* the timer is stopped with less than the full duration of its mode left
Paused ==
  /\ vm.state = "STOPPED"
  /\ vm.remainingSeconds < calculateDurationSeconds(vm.settings, vm.currentMode)

\* the timer is started, stopped, ticked and skipped at will, and
\* updateSettings is called only during a pause and only with values that
\* the settings already have
NextPause ==
  \/ start
  \/ stop
  \/ \E timerId \in IssuedIds : tick(timerId)
  \/ skip
  \/ \E updates \in Partials :
       /\ Paused
       /\ Merged(vm.settings, updates) = vm.settings
       /\ updateSettings(updates)

SpecPause == Init /\ [][NextPause]_vars

(* ------------------------------ the display --------------------------- *)

DecimalDigits == <<"0", "1", "2", "3", "4", "5", "6", "7", "8", "9">>

\* String(n) for a whole number n >= 0: its decimal digits
RECURSIVE String(_)
String(n) ==
  IF n < 10
    THEN <<DecimalDigits[n + 1]>>
    ELSE String(n \div 10) \o <<DecimalDigits[(n % 10) + 1]>>

\* str.padStart(targetLength, padString) with a padString of one character
RECURSIVE padStart(_, _, _)
padStart(str, targetLength, padString) ==
  IF Len(str) >= targetLength
    THEN str
    ELSE padStart(<<padString>> \o str, targetLength, padString)

\* get displayTime
displayTime(v) ==
  LET minutes == v.remainingSeconds \div SecondsPerMinute
      seconds == v.remainingSeconds % SecondsPerMinute
  IN  padStart(String(minutes), 2, "0") \o <<":">>
        \o padStart(String(seconds), 2, "0")

\* the settings a store can hold for the countdown watched on the display:
\* the schema sets no upper limit on a duration
DisplaySettings ==
  [workDuration : {1, MaxDisplayMinutes}, restDuration : {1}]

InitDisplay ==
  /\ storage \in DisplaySettings
  /\ vm = initialize(storage)
  /\ timerService = [timers |-> {}, nextId |-> FirstTimerId]
  /\ lastOp = "initialize"
  /\ wasRunning = FALSE
  /\ loadedSeconds = TotalSeconds("WORK", storage)
  /\ cycle = NoCycle
  /\ changedNext = FALSE
  /\ wasStale = FALSE
  /\ notified = <<>>
  /\ requested = NoRequest
  /\ outcome = "returned"
  /\ disposed = FALSE
  /\ editor = NewEditor
  /\ editorCall = NoEditorCall
  /\ settingsCall = NoSettingsCall
  /\ modelCall = NoModelCall

\* the countdown is started and left to run
NextDisplay ==
  \/ start
  \/ \E timerId \in IssuedIds : tick(timerId)

SpecDisplay == InitDisplay /\ [][NextDisplay]_vars

(* ------------------------ the TimerModel functions --------------------- *)

\* the values of the TimerModel type within the bound: remainingSeconds is a
\* whole number >= 0
TimerModels ==
  [remainingSeconds : 0..(MaxMinutes * SecondsPerMinute),
   currentMode : {"WORK", "REST"},
   state : {"STOPPED", "RUNNING"}]

\* a call of a TimerModel function: the argument is spread into a new
\* record and is itself left as it was
modelCalled(fn, timerModel, settings, result) ==
  /\ modelCall' = [fn |-> fn, timerModel |-> timerModel, settings |-> settings,
                   result |-> result, timerModelAfter |-> timerModel]
  /\ UNCHANGED <<timerVars, disposed, editor, editorCall, settingsCall>>

\* tick(timerModel)
callTick(timerModel) ==
  modelCalled("tick", timerModel, NoSettings, tickModel(timerModel))

\* transitionToNextMode(timerModel, settings)
callTransitionToNextMode(timerModel, settings) ==
  modelCalled("transitionToNextMode", timerModel, settings,
              transitionToNextMode(timerModel, settings))

\* reset(timerModel, settings)
callReset(timerModel, settings) ==
  modelCalled("reset", timerModel, settings, resetModel(timerModel, settings))

NextModel ==
  \/ \E timerModel \in TimerModels : callTick(timerModel)
  \/ \E timerModel \in TimerModels, settings \in ValidSettings :
       callTransitionToNextMode(timerModel, settings)
  \/ \E timerModel \in TimerModels, settings \in ValidSettings :
       callReset(timerModel, settings)

SpecModel == InitOneMinute /\ [][NextModel]_vars

(* ------------------------- SettingsViewModel --------------------------- *)

\* mutant: only the work duration is compared with the original
hasChanges_WorkOnly(e) ==
  IF e.originalSettings = NoSettings
    THEN FALSE
    ELSE e.workDuration # toNumber(e.originalSettings.workDuration)

\* get hasChanges
hasChanges(e) ==
  IF e.originalSettings = NoSettings
    THEN FALSE
    ELSE \/ e.workDuration # toNumber(e.originalSettings.workDuration)
         \/ e.restDuration # toNumber(e.originalSettings.restDuration)

\* mutant: load takes the drafts and keeps the original it had
editorLoad_KeepsOriginal(e, settings) ==
  [workDuration |-> toNumber(settings.workDuration),
   restDuration |-> toNumber(settings.restDuration),
   originalSettings |-> IF e.originalSettings = NoSettings
                          THEN settings ELSE e.originalSettings]

\* load(settings)
editorLoad(e, settings) ==
  [workDuration |-> toNumber(settings.workDuration),
   restDuration |-> toNumber(settings.restDuration),
   originalSettings |-> settings]

\* mutant: save returns the settings without keeping them as the original
editorSave_ForgetsOriginal(e) ==
  LET parsed == TimerSettingsSchemaSafeParse(
                  [workDuration |-> e.workDuration,
                   restDuration |-> e.restDuration])
  IN  [threw |-> ~parsed.success, editor |-> e, validated |-> parsed.data]

\* mutant: a save that fails puts the drafts back on the original
editorSave_RevertsOnFailure(e) ==
  LET parsed == TimerSettingsSchemaSafeParse(
                  [workDuration |-> e.workDuration,
                   restDuration |-> e.restDuration])
  IN  IF parsed.success
        THEN [threw |-> FALSE,
              editor |-> [e EXCEPT !.originalSettings = parsed.data],
              validated |-> parsed.data]
        ELSE [threw |-> TRUE,
              editor |-> IF e.originalSettings = NoSettings
                           THEN e
                           ELSE editorLoad(e, e.originalSettings),
              validated |-> NoSettings]

\* save(): TimerSettingsSchema.parse throws on an invalid draft, before the
\* original is assigned
editorSave(e) ==
  LET parsed == TimerSettingsSchemaSafeParse(
                  [workDuration |-> e.workDuration,
                   restDuration |-> e.restDuration])
  IN  IF parsed.success
        THEN [threw |-> FALSE,
              editor |-> [e EXCEPT !.originalSettings = parsed.data],
              validated |-> parsed.data]
        ELSE [threw |-> TRUE, editor |-> e, validated |-> NoSettings]

\* mutant: cancel puts back the work duration only
editorCancel_WorkOnly(e) ==
  IF e.originalSettings # NoSettings
    THEN [e EXCEPT !.workDuration = toNumber(e.originalSettings.workDuration)]
    ELSE e

\* cancel()
editorCancel(e) ==
  IF e.originalSettings # NoSettings
    THEN [e EXCEPT !.workDuration = toNumber(e.originalSettings.workDuration),
                   !.restDuration = toNumber(e.originalSettings.restDuration)]
    ELSE e

\* mutant: the probe lets zero through
validateDuration_NonNegative(value) == value >= 0 /\ isInteger(value)

\* TimerSettingsSchema.shape.<field>.parse(value) inside try/catch: true
\* when it returns, false when it throws
validateDuration(value) == numberSchemaOk(value)

\* what a call that gives nothing back and keeps nothing records
editorCalled(op, value, settings) ==
  [op |-> op, value |-> value, settings |-> settings, before |-> editor,
   threw |-> FALSE, returned |-> NoSettings, accepted |-> FALSE,
   emitted |-> 0, kept |-> editorCall.kept, keptBy |-> editorCall.keptBy]

\* set workDuration(value)
setWorkDuration(value) ==
  /\ editor' = IF editor.workDuration # value
                 THEN [editor EXCEPT !.workDuration = value]
                 ELSE editor
  /\ editorCall' = editorCalled("setWorkDuration", value, NoSettings)
  /\ UNCHANGED <<timerVars, disposed, settingsCall, modelCall>>

\* set restDuration(value)
setRestDuration(value) ==
  /\ editor' = IF editor.restDuration # value
                 THEN [editor EXCEPT !.restDuration = value]
                 ELSE editor
  /\ editorCall' = editorCalled("setRestDuration", value, NoSettings)
  /\ UNCHANGED <<timerVars, disposed, settingsCall, modelCall>>

\* load(settings)
load(settings) ==
  /\ editor' = editorLoad(editor, settings)
  /\ editorCall' = [editorCalled("load", 0, settings) EXCEPT
                      !.kept = settings, !.keptBy = "load"]
  /\ UNCHANGED <<timerVars, disposed, settingsCall, modelCall>>

\* save()
save ==
  LET r == editorSave(editor)
  IN  /\ editor' = r.editor
      /\ editorCall' = [editorCalled("save", 0, NoSettings) EXCEPT
                          !.threw = r.threw,
                          !.returned = r.validated,
                          !.kept = IF r.threw THEN @ ELSE r.validated,
                          !.keptBy = IF r.threw THEN @ ELSE "save"]
      /\ UNCHANGED <<timerVars, disposed, settingsCall, modelCall>>

\* cancel()
cancel ==
  /\ editor' = editorCancel(editor)
  /\ editorCall' = editorCalled("cancel", 0, NoSettings)
  /\ UNCHANGED <<timerVars, disposed, settingsCall, modelCall>>

\* validateWorkDuration(value)
validateWorkDuration(value) ==
  /\ editorCall' = [editorCalled("validateWorkDuration", value, NoSettings)
                      EXCEPT !.accepted = validateDuration(value)]
  /\ UNCHANGED <<timerVars, disposed, settingsCall, modelCall, editor>>

\* validateRestDuration(value)
validateRestDuration(value) ==
  /\ editorCall' = [editorCalled("validateRestDuration", value, NoSettings)
                      EXCEPT !.accepted = validateDuration(value)]
  /\ UNCHANGED <<timerVars, disposed, settingsCall, modelCall, editor>>

NextEditor ==
  \/ \E value \in Numbers : setWorkDuration(value)
  \/ \E value \in Numbers : setRestDuration(value)
  \/ \E settings \in ValidSettings : load(settings)
  \/ save
  \/ cancel
  \/ \E value \in Numbers : validateWorkDuration(value)
  \/ \E value \in Numbers : validateRestDuration(value)

SpecEditor == InitOneMinute /\ [][NextEditor]_vars

(* ------------------- the SettingsViewModel that saves ------------------ *)

\* mutant: the draft is written to the store and the original is kept
saveImmediately_KeepsOriginal(e, st) ==
  LET parsed == TimerSettingsSchemaSafeParse(
                  [workDuration |-> e.workDuration,
                   restDuration |-> e.restDuration])
  IN  IF parsed.success
        THEN [editor |-> e, storage |-> storageSave(st, parsed.data), emitted |-> 1]
        ELSE [editor |-> e, storage |-> st, emitted |-> 0]

\* _saveImmediately(): parse the draft, save it, make it the original and
\* emit settings-changed; an error of the parse is caught and logged
saveImmediately(e, st) ==
  LET parsed == TimerSettingsSchemaSafeParse(
                  [workDuration |-> e.workDuration,
                   restDuration |-> e.restDuration])
  IN  IF parsed.success
        THEN [editor |-> [e EXCEPT !.originalSettings = parsed.data],
              storage |-> storageSave(st, parsed.data),
              emitted |-> 1]
        ELSE [editor |-> e, storage |-> st, emitted |-> 0]

\* what the calls on the SettingsViewModel leave alone, the store apart
besideStore ==
  <<vm, timerService, lastOp, wasRunning, loadedSeconds, cycle, changedNext,
    wasStale, notified, requested, outcome, disposed, settingsCall, modelCall>>

\* createSettingsViewModel(storage, initialSettings), given the settings in
\* force, which are the stored ones: initialize() loads them
createSettingsViewModel ==
  /\ editor' = editorLoad(NewEditor, storageLoad(storage))
  /\ editorCall' = [NoEditorCall EXCEPT
                      !.op = "initialize",
                      !.settings = storageLoad(storage),
                      !.before = NewEditor,
                      !.kept = storageLoad(storage),
                      !.keptBy = "load"]
  /\ UNCHANGED <<storage, besideStore>>

\* the body of a setter of the saving SettingsViewModel: a value that
\* differs from the draft is assigned and _saveImmediately() is called
assign(field, value) ==
  IF editor[field] # value
    THEN saveImmediately([editor EXCEPT ![field] = value], storage)
    ELSE [editor |-> editor, storage |-> storage, emitted |-> 0]

\* the record of a setter call of the saving SettingsViewModel
assigned(op, value, r) ==
  [editorCalled(op, value, NoSettings) EXCEPT
     !.emitted = r.emitted,
     !.kept = IF r.emitted > 0 THEN r.storage ELSE @,
     !.keptBy = IF r.emitted > 0 THEN "save" ELSE @]

\* set workDuration(value)
autoSetWorkDuration(value) ==
  /\ editor.originalSettings # NoSettings
  /\ editor' = assign("workDuration", value).editor
  /\ storage' = assign("workDuration", value).storage
  /\ editorCall' = assigned("autoSetWorkDuration", value,
                             assign("workDuration", value))
  /\ UNCHANGED besideStore

\* set restDuration(value)
autoSetRestDuration(value) ==
  /\ editor.originalSettings # NoSettings
  /\ editor' = assign("restDuration", value).editor
  /\ storage' = assign("restDuration", value).storage
  /\ editorCall' = assigned("autoSetRestDuration", value,
                             assign("restDuration", value))
  /\ UNCHANGED besideStore

NextAutoSave ==
  \/ createSettingsViewModel
  \/ \E value \in Numbers : autoSetWorkDuration(value)
  \/ \E value \in Numbers : autoSetRestDuration(value)

SpecAutoSave == Init /\ [][NextAutoSave]_vars

(* ============================== claims ================================= *)

\* C1 (as stated): in every reachable state
\* 0 <= remainingSeconds <= totalSeconds(mode, current settings).
C1_Original ==
  /\ 0 <= vm.remainingSeconds
  /\ vm.remainingSeconds <= TotalSeconds(vm.currentMode, vm.settings)

\* C1 (amended): in every reachable state 0 <= remainingSeconds <=
\* totalSeconds(mode, s), where s is the settings in force when
\* remainingSeconds was last recomputed (construction, mode transition, reset,
\* updateSettings while Stopped); s is the current settings unless
\* updateSettings was accepted while Running since then.
C1_BoundUnderLoadedSettings ==
  /\ 0 <= vm.remainingSeconds
  /\ vm.remainingSeconds <= loadedSeconds

\* C1 witness: ticks have run after a settings change while Running that
\* shortened the current mode, so the countdown exceeds the new total
C1_Witness ==
  /\ lastOp = "tick"
  /\ vm.state = "RUNNING"
  /\ loadedSeconds > TotalSeconds(vm.currentMode, vm.settings)
  /\ vm.remainingSeconds > TotalSeconds(vm.currentMode, vm.settings)

\* C2: after every tick callback and every command the state is never
\* remainingSeconds = 0 with run = Running, and the tick that takes
\* remainingSeconds from 1 to 0 ends with mode flipped and run = Stopped.
C2_NoZeroWhileRunning ==
  /\ [](~(vm.remainingSeconds = 0 /\ vm.state = "RUNNING"))
  /\ [][(lastOp' = "tick" /\ vm.state = "RUNNING" /\ vm.remainingSeconds = 1)
          => /\ vm'.currentMode = OtherMode(vm.currentMode)
             /\ vm'.state = "STOPPED"
             /\ vm'.remainingSeconds = TotalSeconds(vm'.currentMode, vm.settings)]_vars

\* C2 witness: a tick has just completed a countdown
C2_Witness ==
  /\ lastOp = "tick"
  /\ wasRunning
  /\ vm.state = "STOPPED"
  /\ cycle.on /\ cycle.ticks = TotalSeconds(cycle.mode, vm.settings)

\* C3: run = Running implies the view model holds a handle that is registered
\* with the timer service; run = Stopped implies it holds no handle; the tick
\* that reaches 0 leaves the handle cleared and its registration gone.
C3_HandleMatchesRunState ==
  /\ vm.state = "RUNNING" => (vm.timerId # Null /\ vm.timerId \in timerService.timers)
  /\ vm.state = "STOPPED" => vm.timerId = Null
  /\ vm.model.state = vm.state

\* C3 witness: the tick that reached 0 has run and the handle is gone
C3_Witness ==
  /\ lastOp = "tick"
  /\ wasRunning
  /\ vm.state = "STOPPED"
  /\ vm.timerId = Null
  /\ timerService.nextId > FirstTimerId

\* C4: the timer service holds at most one registration, and none while
\* run = Stopped.
C4_AtMostOneRegistration ==
  /\ Cardinality(timerService.timers) <= 1
  /\ vm.state = "STOPPED" => timerService.timers = {}

\* C4 witness: a timer is registered again after earlier ones were ended
C4_Witness ==
  /\ vm.state = "RUNNING"
  /\ timerService.nextId > FirstTimerId + 1
  /\ Cardinality(timerService.timers) = 1

\* C5: start() while Running changes nothing (the pure start reports
\* hasChanged = false and returns the same model, no timer is registered, the
\* handle, mode and remainingSeconds stay); start() while Stopped sets
\* run = Running and registers exactly one callback, whose id is the handle.
C5_StartIdempotent ==
  [][lastOp' = "start" =>
       IF vm.state = "RUNNING"
         THEN /\ startModel(vm.model).hasChanged = FALSE
              /\ startModel(vm.model).result = vm.model
              /\ vm' = vm
              /\ timerService' = timerService
         ELSE /\ startModel(vm.model).hasChanged = TRUE
              /\ vm'.state = "RUNNING" /\ vm'.model.state = "RUNNING"
              /\ vm'.currentMode = vm.currentMode
              /\ vm'.remainingSeconds = vm.remainingSeconds
              /\ vm'.timerId \notin timerService.timers
              /\ timerService'.timers = timerService.timers \cup {vm'.timerId}
              /\ Cardinality(timerService'.timers) = Cardinality(timerService.timers) + 1
    ]_vars

\* C5 witness: start() was called while the countdown was running
C5_Witness ==
  /\ lastOp = "start"
  /\ wasRunning
  /\ vm.state = "RUNNING"
  /\ cycle.on /\ cycle.ticks > 0

\* C6: start() from a Stopped state with the full duration of its mode,
\* followed by ticks only: after k ticks, k below 60 x that mode's minutes,
\* the state is {same mode, Running, full duration - k}; after exactly
\* 60 x minutes ticks it is {other mode, Stopped, full duration of the other
\* mode}. This covers the Work cycle from the initial state and the Rest cycle.
C6_CycleCountdown ==
  cycle.on =>
    LET total == TotalSeconds(cycle.mode, vm.settings)
    IN  IF cycle.ticks < total
          THEN /\ vm.currentMode = cycle.mode
               /\ vm.state = "RUNNING"
               /\ vm.remainingSeconds = total - cycle.ticks
          ELSE /\ cycle.ticks = total
               /\ vm.currentMode = OtherMode(cycle.mode)
               /\ vm.state = "STOPPED"
               /\ vm.remainingSeconds = TotalSeconds(OtherMode(cycle.mode), vm.settings)

\* C6 witness: a Rest cycle ran from its full duration down to the transition
\* back to Work
C6_Witness ==
  /\ cycle.on
  /\ cycle.mode = "REST"
  /\ cycle.ticks = TotalSeconds("REST", vm.settings)
  /\ vm.currentMode = "WORK"
  /\ lastOp = "tick"

\* C7: skip(), from Running or Stopped, leaves the mode flipped, run = Stopped,
\* remainingSeconds = totalSeconds(new mode, current settings), the handle
\* cleared and cancelled, and no registration with the timer service.
C7_Skip ==
  [][lastOp' = "skip" =>
       /\ vm'.currentMode = OtherMode(vm.currentMode)
       /\ vm'.state = "STOPPED"
       /\ vm'.settings = vm.settings
       /\ vm'.remainingSeconds = TotalSeconds(vm'.currentMode, vm'.settings)
       /\ vm'.timerId = Null
       /\ vm.timerId \notin timerService'.timers
       /\ timerService'.timers = {}
    ]_vars

\* C7 witness: skip() was called on a running countdown
C7_Witness ==
  /\ lastOp = "skip"
  /\ wasRunning
  /\ vm.state = "STOPPED"
  /\ timerService.timers = {}

C9_UpdateSettingsStopped ==
  [][(lastOp' = "updateSettings" /\ vm.state = "STOPPED") =>
       /\ vm'.remainingSeconds = TotalSeconds(vm.currentMode, vm'.settings)
       /\ vm'.currentMode = vm.currentMode
       /\ vm'.state = "STOPPED"
       /\ vm'.timerId = vm.timerId
       /\ timerService' = timerService
    ]_vars

\* C9 witness: settings were updated while a Rest countdown was stopped
C9_Witness ==
  /\ lastOp = "updateSettings"
  /\ ~wasRunning
  /\ vm.currentMode = "REST"
  /\ vm.state = "STOPPED"
  /\ vm.remainingSeconds = TotalSeconds("REST", vm.settings)

\* C10: an accepted updateSettings while Running leaves remainingSeconds,
\* mode, run, the handle and the registration unchanged, and the ticks that
\* follow decrement remainingSeconds by 1 from that value.
C10_UpdateSettingsRunning ==
  /\ [][(lastOp' = "updateSettings" /\ vm.state = "RUNNING") =>
          /\ vm'.remainingSeconds = vm.remainingSeconds
          /\ vm'.model = vm.model
          /\ vm'.currentMode = vm.currentMode
          /\ vm'.state = "RUNNING"
          /\ vm'.timerId = vm.timerId
          /\ timerService' = timerService
       ]_vars
  /\ [][(lastOp' = "tick" /\ vm.state = "RUNNING" /\ vm.remainingSeconds > 1) =>
          /\ vm'.remainingSeconds = vm.remainingSeconds - 1
          /\ vm'.state = "RUNNING"
          /\ vm'.currentMode = vm.currentMode
       ]_vars

\* C10 witness: a tick has run after settings were changed while Running
C10_Witness ==
  /\ lastOp = "tick"
  /\ vm.state = "RUNNING"
  /\ loadedSeconds # TotalSeconds(vm.currentMode, vm.settings)
  /\ vm.remainingSeconds < loadedSeconds - 1

\* C11: when a countdown reaches 0 by a tick, the next mode starts with
\* remainingSeconds = totalSeconds(next mode, settings in force at that tick),
\* which are the settings the latest accepted updateSettings installed, also
\* when that happened while the countdown was Running.
C11_TransitionUsesNewSettings ==
  [][(lastOp' = "tick" /\ vm.state = "RUNNING" /\ vm.remainingSeconds = 1) =>
       /\ vm'.currentMode = OtherMode(vm.currentMode)
       /\ vm'.remainingSeconds = TotalSeconds(OtherMode(vm.currentMode), vm.settings)
       /\ vm'.settings = vm.settings
    ]_vars

\* C11 witness: the countdown reached 0 right after updateSettings changed the
\* duration of the next mode while Running
C11_Witness ==
  /\ lastOp = "tick"
  /\ wasRunning
  /\ changedNext
  /\ vm.state = "STOPPED"
  /\ vm.remainingSeconds = TotalSeconds(vm.currentMode, vm.settings)

C13_CancelledHandleIsInert ==
  /\ [](\A id \in IssuedIds : id # vm.timerId => id \notin timerService.timers)
  /\ [][lastOp' = "tickUnregistered" =>
          /\ vm' = vm
          /\ timerService' = timerService
          /\ storage' = storage
       ]_vars

\* C13 witness: a tick was addressed to a cancelled handle while a later
\* start() holds a registration under a different handle
C13_Witness ==
  /\ lastOp = "tickUnregistered"
  /\ vm.state = "RUNNING"
  /\ vm.timerId # Null
  /\ vm.timerId # FirstTimerId
  /\ vm.timerId \in timerService.timers

\* C14: when storage.save fails during an accepted updateSettings, the
\* controller holds the requested settings afterwards, with mode, run, handle
\* and registration untouched (remainingSeconds is recomputed when Stopped and
\* the save returned, and is untouched when Running or when the save threw);
\* and while the store differs from the in-memory settings, start, tick, skip
\* and reset act on the in-memory settings.
C14_FailedSaveKeepsNewSettings ==
  /\ [][lastOp' = "updateSettingsSaveFailed" =>
          /\ vm'.settings = requested'
          /\ vm'.currentMode = vm.currentMode
          /\ vm'.state = vm.state
          /\ vm'.timerId = vm.timerId
          /\ timerService' = timerService
          /\ vm'.remainingSeconds =
               IF vm.state = "STOPPED" /\ outcome' = "returned"
                 THEN TotalSeconds(vm.currentMode, requested')
                 ELSE vm.remainingSeconds
       ]_vars
  /\ [][(vm.settings # storageLoad(storage)
          /\ lastOp' \in {"start", "tick", "skip", "reset"}) =>
          /\ vm'.settings = vm.settings
          /\ lastOp' = "start" /\ vm.state = "STOPPED" =>
               /\ vm'.state = "RUNNING"
               /\ vm'.remainingSeconds = vm.remainingSeconds
          /\ lastOp' = "tick" /\ vm.remainingSeconds > 1 =>
               vm'.remainingSeconds = vm.remainingSeconds - 1
          /\ lastOp' = "tick" /\ vm.remainingSeconds = 1 =>
               vm'.remainingSeconds =
                 TotalSeconds(OtherMode(vm.currentMode), vm.settings)
          /\ lastOp' = "skip" =>
               vm'.remainingSeconds =
                 TotalSeconds(OtherMode(vm.currentMode), vm.settings)
          /\ lastOp' = "reset" =>
               vm'.remainingSeconds = TotalSeconds(vm.currentMode, vm.settings)
       ]_vars

\* C14 witness: a save has failed and the controller holds the requested
\* settings, which the store does not
C14_Witness ==
  /\ lastOp = "updateSettingsSaveFailed"
  /\ vm.settings = requested
  /\ storageLoad(storage) # requested

\* C15: a rejected updateSettings leaves the controller (settings,
\* remainingSeconds, mode, run, handle), the timer service and the store
\* unchanged, and a save the store rejects leaves the stored settings and the
\* controller unchanged.
C15_RejectionChangesNothing ==
  /\ [][lastOp' = "updateSettingsRejected" =>
          /\ vm' = vm
          /\ timerService' = timerService
          /\ storage' = storage
       ]_vars
  /\ [][lastOp' = "storeSaveRejected" =>
          /\ storage' = storage
          /\ vm' = vm
       ]_vars

\* C15 witness: an updateSettings was rejected while a countdown was Running
C15_Witness ==
  /\ lastOp = "updateSettingsRejected"
  /\ vm.state = "RUNNING"
  /\ vm.remainingSeconds < loadedSeconds

\* C16 as stated: a rejected updateSettings ends with an error reported to its
\* caller.
C16_RejectionIsReported ==
  lastOp = "updateSettingsRejected" => outcome # "returned"

\* C17: without storage failures the in-memory settings are what the store
\* returns from load(), from construction on, and an accepted updateSettings
\* leaves both equal to the settings it was asked for.
C17_SettingsMatchStore ==
  /\ [](vm.settings = storageLoad(storage))
  /\ [][lastOp' = "updateSettings" =>
          /\ vm'.settings = requested'
          /\ storageLoad(storage') = requested'
       ]_vars

\* C17 witness: an updateSettings changed the settings, and the controller and
\* the store both hold what was asked for
C17_Witness ==
  /\ lastOp = "updateSettings"
  /\ requested # NoRequest
  /\ vm.settings = requested
  /\ storageLoad(storage) = requested
  /\ loadedSeconds # TotalSeconds(vm.currentMode, vm.settings)

\* C18 as stated: no notification of an operation is delivered while
\* remainingSeconds = 0 and run = Running.
C18_NoNotificationInTransientState ==
  \A i \in DOMAIN notified :
    ~(notified[i].remainingSeconds = 0 /\ notified[i].state = "RUNNING")

\* the observable properties C19 names
ClaimedProperties ==
  {"remaining-seconds", "display-time", "current-mode", "mode-label",
   "state", "start-stop-label"}

\* the value an observer reads from a property
ObservedValue(property, v) ==
  CASE property = "remaining-seconds" -> v.remainingSeconds
    [] property = "display-time" ->
         <<v.remainingSeconds \div SecondsPerMinute,
           v.remainingSeconds % SecondsPerMinute>>
    [] property \in {"current-mode", "mode-label"} -> v.currentMode
    [] property \in {"state", "start-stop-label"} -> v.state

\* how many times an operation notified a property
TimesNotified(property, log) ==
  Cardinality({i \in DOMAIN log : log[i].property = property})

\* C19 as stated: every operation, the tick that reaches 0 included, notifies
\* each property whose value it changed exactly once.
C19_AffectedPropertyNotifiedOnce ==
  [][\A property \in ClaimedProperties :
       ObservedValue(property, vm') # ObservedValue(property, vm) =>
         TimesNotified(property, notified') = 1
    ]_vars

\* C20: stop() while Running leaves run = Stopped, the handle cleared and its
\* registration cancelled, mode and remainingSeconds unchanged; stop() while
\* Stopped changes neither the controller nor the timer service; and start()
\* from Stopped keeps mode and remainingSeconds, so it resumes where stop()
\* left the countdown.
C20_StopPauses ==
  /\ [][lastOp' = "stop" =>
          IF vm.state = "RUNNING"
            THEN /\ vm'.state = "STOPPED"
                 /\ vm'.timerId = Null
                 /\ vm.timerId \notin timerService'.timers
                 /\ timerService'.timers = {}
                 /\ vm'.currentMode = vm.currentMode
                 /\ vm'.remainingSeconds = vm.remainingSeconds
                 /\ vm'.settings = vm.settings
            ELSE /\ vm' = vm
                 /\ timerService' = timerService
       ]_vars
  /\ [][(lastOp' = "start" /\ vm.state = "STOPPED") =>
          /\ vm'.state = "RUNNING"
          /\ vm'.currentMode = vm.currentMode
          /\ vm'.remainingSeconds = vm.remainingSeconds
       ]_vars

\* C20 witness: start() has resumed a countdown that stop() had paused part
\* of the way down
C20_Witness ==
  /\ lastOp = "start"
  /\ ~wasRunning
  /\ vm.state = "RUNNING"
  /\ vm.timerId # FirstTimerId
  /\ vm.remainingSeconds < loadedSeconds

(* C21: a newly constructed controller is in WORK mode, STOPPED, with        *)
(* remainingSeconds = 60 * the workDuration of the settings loaded from    *)
(* the store, and nothing is registered with the timer service.            *)
C21_InitialState ==
  lastOp = "initialize" =>
    /\ vm.currentMode = "WORK"
    /\ vm.state = "STOPPED"
    /\ vm.settings = storageLoad(storage)
    /\ vm.remainingSeconds = SecondsPerMinute * storageLoad(storage).workDuration
    /\ vm.timerId = Null
    /\ timerService.timers = {}

\* a new controller over a store whose two durations differ
C21_Witness ==
  /\ lastOp = "initialize"
  /\ storage.workDuration = MaxMinutes
  /\ storage.restDuration # storage.workDuration
  /\ vm.remainingSeconds = MaxMinutes * SecondsPerMinute

PositiveIntegers == {n \in Numbers : \E i \in 1..MaxMinutes : n = i * Denominator}

(* C23: a settings record is accepted exactly when workDuration and         *)
(* restDuration are both integers >= 1; zero, a negative number or a        *)
(* non-integer in either field is rejected, so every TimerSettings value    *)
(* has both fields >= 1.                                                    *)
C23_SettingsValidation ==
  settingsCall.fn = "parse" =>
    LET raw == settingsCall.raw
        result == settingsCall.result
    IN  /\ result.success <=> (/\ raw.workDuration \in PositiveIntegers
                               /\ raw.restDuration \in PositiveIntegers)
        /\ result.success =>
              /\ \A k \in Keys : result.data[k] * Denominator = raw[k]
              /\ result.data.workDuration >= 1
              /\ result.data.restDuration >= 1
              /\ result.data \in ValidSettings
        /\ ~result.success => result.data = NoSettings

\* a record is turned down only because one field, although positive, is not
\* whole
C23_Witness ==
  /\ settingsCall.fn = "parse"
  /\ ~settingsCall.result.success
  /\ settingsCall.raw.workDuration \in PositiveIntegers
  /\ settingsCall.raw.restDuration > 0
  /\ settingsCall.raw.restDuration \notin PositiveIntegers

(* C24: updateSettings(settings, updates) gives a TimerSettings whose given *)
(* fields take the new values and whose other fields keep the old ones, or  *)
(* a failure when the merged record is invalid; with no field given the     *)
(* result equals the original; the settings passed in are not modified.     *)
C24_UpdateSettingsMerges ==
  settingsCall.fn = "updateSettings" =>
    LET settings == settingsCall.settings
        updates == settingsCall.updates
        result == settingsCall.result
        merged == [k \in Keys |-> IF k \in DOMAIN updates
                                    THEN updates[k]
                                    ELSE settings[k] * Denominator]
    IN  /\ result.success <=> \A k \in Keys : merged[k] \in PositiveIntegers
        /\ result.success =>
              \A k \in Keys : result.data[k] * Denominator = merged[k]
        /\ ~result.success => result.data = NoSettings
        /\ DOMAIN updates = {} => result.success /\ result.data = settings
        /\ settingsCall.settingsAfter = settings

\* only the rest duration is given, and the result carries it next to the
\* old work duration
C24_Witness ==
  /\ settingsCall.fn = "updateSettings"
  /\ DOMAIN settingsCall.updates = {"restDuration"}
  /\ settingsCall.result.success
  /\ settingsCall.result.data.restDuration # settingsCall.settings.restDuration
  /\ settingsCall.result.data.workDuration = settingsCall.settings.workDuration

\* the drafts of an editor, as a record of numbers
Draft(e) == [workDuration |-> e.workDuration, restDuration |-> e.restDuration]

\* settings as the record of numbers a draft holds for them
AsDraft(settings) ==
  [workDuration |-> settings.workDuration * Denominator,
   restDuration |-> settings.restDuration * Denominator]

\* both drafts are whole and at least 1
DraftValid(e) ==
  e.workDuration \in PositiveIntegers /\ e.restDuration \in PositiveIntegers

(* C25: hasChanges is true iff the draft differs, in workDuration or in     *)
(* restDuration, from the settings last loaded or saved; it is false when   *)
(* nothing has been loaded or saved, and it is false again once a changed   *)
(* field is set back to its original value.                                 *)
C25_HasChanges ==
  /\ hasChanges(editor) <=> /\ editorCall.keptBy # "none"
                            /\ Draft(editor) # AsDraft(editorCall.kept)
  /\ editorCall.keptBy = "none" => ~hasChanges(editor)
  /\ ( /\ editorCall.op = "setWorkDuration"
       /\ editorCall.keptBy # "none"
       /\ editorCall.value = AsDraft(editorCall.kept).workDuration
       /\ editorCall.before.restDuration = AsDraft(editorCall.kept).restDuration )
       => ~hasChanges(editor)
  /\ ( /\ editorCall.op = "setRestDuration"
       /\ editorCall.keptBy # "none"
       /\ editorCall.value = AsDraft(editorCall.kept).restDuration
       /\ editorCall.before.workDuration = AsDraft(editorCall.kept).workDuration )
       => ~hasChanges(editor)

\* the rest duration had been changed and is set back to its original value
C25_Witness ==
  /\ editorCall.op = "setRestDuration"
  /\ hasChanges(editorCall.before)
  /\ editorCall.before.restDuration # editorCall.value
  /\ ~hasChanges(editor)

(* C26: with both drafts positive integers, save() returns settings equal   *)
(* to the draft, makes them the original, so that hasChanges is false, and  *)
(* leaves the drafts as they were; also when nothing was loaded before.     *)
C26_SaveValidDraft ==
  (editorCall.op = "save" /\ DraftValid(editorCall.before)) =>
    /\ ~editorCall.threw
    /\ AsDraft(editorCall.returned) = Draft(editorCall.before)
    /\ editor.originalSettings = editorCall.returned
    /\ Draft(editor) = Draft(editorCall.before)
    /\ ~hasChanges(editor)

\* a valid draft typed into a new editor is saved
C26_Witness ==
  /\ editorCall.op = "save"
  /\ ~editorCall.threw
  /\ editorCall.before.originalSettings = NoSettings
  /\ editorCall.returned.workDuration # editorCall.returned.restDuration

(* C27: with a draft that is not a positive integer, save() throws and      *)
(* leaves the drafts, the original and so hasChanges as they were.          *)
C27_SaveInvalidDraft ==
  (editorCall.op = "save" /\ ~DraftValid(editorCall.before)) =>
    /\ editorCall.threw
    /\ editorCall.returned = NoSettings
    /\ editor = editorCall.before
    /\ hasChanges(editor) = hasChanges(editorCall.before)

\* settings are loaded, a draft is made invalid, and save() throws
C27_Witness ==
  /\ editorCall.op = "save"
  /\ editorCall.threw
  /\ editorCall.before.originalSettings # NoSettings
  /\ hasChanges(editor)

(* C28: cancel() sets both drafts to the settings last loaded or last       *)
(* saved, whichever came later, and leaves hasChanges false; when nothing   *)
(* was loaded or saved it changes nothing.                                  *)
C28_Cancel ==
  editorCall.op = "cancel" =>
    IF editorCall.keptBy = "none"
      THEN editor = editorCall.before
      ELSE /\ Draft(editor) = AsDraft(editorCall.kept)
           /\ editor.originalSettings = editorCall.kept
           /\ editor.originalSettings = editorCall.before.originalSettings
           /\ ~hasChanges(editor)

\* both drafts were edited after a save, and cancel() puts back what was
\* saved
C28_Witness ==
  /\ editorCall.op = "cancel"
  /\ editorCall.keptBy = "save"
  /\ editorCall.before.workDuration # editor.workDuration
  /\ editorCall.before.restDuration # editor.restDuration

(* C29: load(settings) replaces both drafts and the original with the       *)
(* settings given, whatever was edited, saved or loaded before, so that     *)
(* hasChanges is false right after every load.                              *)
C29_Load ==
  editorCall.op = "load" =>
    /\ Draft(editor) = AsDraft(editorCall.settings)
    /\ editor.originalSettings = editorCall.settings
    /\ ~hasChanges(editor)

\* other settings are loaded over an edited draft of settings loaded or
\* saved before
C29_Witness ==
  /\ editorCall.op = "load"
  /\ hasChanges(editorCall.before)
  /\ editorCall.before.originalSettings # editorCall.settings
  /\ Draft(editorCall.before) # AsDraft(editorCall.settings)

(* C30: validateWorkDuration(v) and validateRestDuration(v) never throw and *)
(* answer true exactly when v is a positive integer, which is the rule of   *)
(* the settings schema; so save() succeeds iff both accept the drafts.      *)
C30_ValidateMatchesSchema ==
  /\ editorCall.op \in {"validateWorkDuration", "validateRestDuration"} =>
       /\ ~editorCall.threw
       /\ editorCall.accepted <=> editorCall.value \in PositiveIntegers
       /\ editorCall.accepted <=>
            TimerSettingsSchemaSafeParse(
              [workDuration |-> editorCall.value,
               restDuration |-> editorCall.value]).success
       /\ editor = editorCall.before
  /\ editorCall.op = "save" =>
       (~editorCall.threw <=> /\ validateDuration(editorCall.before.workDuration)
                              /\ validateDuration(editorCall.before.restDuration))

\* a positive number that is not whole is turned down by the probe
C30_Witness ==
  /\ editorCall.op = "validateRestDuration"
  /\ ~editorCall.accepted
  /\ editorCall.value > 0

(* C31: tick(timerModel) returns the model unchanged when remainingSeconds  *)
(* is 0 and otherwise a model whose remainingSeconds is smaller by exactly  *)
(* 1; currentMode and state are kept in both cases, whatever the state is,  *)
(* and the model passed in is not modified.                                 *)
C31_PureTick ==
  modelCall.fn = "tick" =>
    LET timerModel == modelCall.timerModel
        result == modelCall.result
    IN  /\ timerModel.remainingSeconds = 0 => result = timerModel
        /\ timerModel.remainingSeconds > 0 =>
              result.remainingSeconds = timerModel.remainingSeconds - 1
        /\ result.currentMode = timerModel.currentMode
        /\ result.state = timerModel.state
        /\ modelCall.timerModelAfter = timerModel

\* a stopped model with time left is ticked, and counts down
C31_Witness ==
  /\ modelCall.fn = "tick"
  /\ modelCall.timerModel.state = "STOPPED"
  /\ modelCall.timerModel.currentMode = "REST"
  /\ modelCall.timerModel.remainingSeconds > 1
  /\ modelCall.result.remainingSeconds < modelCall.timerModel.remainingSeconds

(* C32: transitionToNextMode(timerModel, settings) is unconditional: for    *)
(* any remainingSeconds and any state it returns the other mode, STOPPED,   *)
(* and remainingSeconds = the full duration of the new mode under settings; *)
(* so countdowns completed one after the other end in REST, WORK, REST, ... *)
(* each time STOPPED.                                                       *)
C32_PureTransition ==
  /\ modelCall.fn = "transitionToNextMode" =>
       LET timerModel == modelCall.timerModel
           result == modelCall.result
       IN  /\ result.currentMode = OtherMode(timerModel.currentMode)
           /\ result.currentMode # timerModel.currentMode
           /\ result.state = "STOPPED"
           /\ result.remainingSeconds =
                TotalSeconds(result.currentMode, modelCall.settings)
           /\ transitionToNextMode(result, modelCall.settings).currentMode
                = timerModel.currentMode
           /\ transitionToNextMode(result, modelCall.settings).state = "STOPPED"

\* a running model in the middle of a rest countdown is moved to WORK
C32_Witness ==
  /\ modelCall.fn = "transitionToNextMode"
  /\ modelCall.timerModel.state = "RUNNING"
  /\ modelCall.timerModel.currentMode = "REST"
  /\ modelCall.timerModel.remainingSeconds \notin {0, modelCall.result.remainingSeconds}
  /\ modelCall.settings.workDuration # modelCall.settings.restDuration

DigitValue(c) == CHOOSE d \in 0..9 : DecimalDigits[d + 1] = c

(* C34: displayTime is the zero-padded MM:SS rendering of remainingSeconds: *)
(* two minute digits (remainingSeconds div 60), a colon and two second      *)
(* digits (remainingSeconds mod 60), for every remainingSeconds reachable   *)
(* under valid settings.                                                    *)
C34_DisplayTimeIsMMSS ==
  LET text == displayTime(vm)
  IN  /\ Len(text) = 5
      /\ text[3] = ":"
      /\ \A i \in {1, 2, 4, 5} : \E d \in 0..9 : text[i] = DecimalDigits[d + 1]
      /\ 10 * DigitValue(text[1]) + DigitValue(text[2])
           = vm.remainingSeconds \div SecondsPerMinute
      /\ 10 * DigitValue(text[4]) + DigitValue(text[5])
           = vm.remainingSeconds % SecondsPerMinute

(* C35: in every state seen between operations, that is after a command or *)
(* a completed tick callback, remainingSeconds >= 1 whatever the state is:  *)
(* the value 0 exists only inside the tick that makes the mode transition.  *)
C35_RemainingAtLeastOne ==
  /\ vm.remainingSeconds >= 1
  /\ vm.model.remainingSeconds >= 1

\* the tick that counted 1 down to 0 has returned, and the countdown of the
\* next mode is loaded
C35_Witness ==
  /\ lastOp = "tick"
  /\ wasRunning
  /\ vm.state = "STOPPED"
  /\ vm.remainingSeconds = TotalSeconds(vm.currentMode, vm.settings)
  /\ vm.timerId = Null

(* C36, as stated: the mode changes only through skip() or the tick that    *)
(* reaches 0, and remainingSeconds decreases only by a tick delivered while *)
(* the timer is RUNNING.                                                    *)
C36_Original ==
  [][/\ vm'.currentMode # vm.currentMode =>
          \/ lastOp' = "skip"
          \/ lastOp' = "tick" /\ vm.remainingSeconds = 1
     /\ vm'.remainingSeconds < vm.remainingSeconds =>
          lastOp' = "tick" /\ vm.state = "RUNNING"]_vars

(* C36, amended: the mode changes only through skip() or the tick that      *)
(* reaches 0; start and stop leave remainingSeconds as it is; a tick lowers *)
(* it only when delivered while RUNNING, and then by exactly 1; any other   *)
(* decrease is the load of a full duration by skip(), by reset() or by an   *)
(* updateSettings made while STOPPED.                                       *)
C36_ModeAndCountdownFrame ==
  [][/\ vm'.currentMode # vm.currentMode =>
          \/ lastOp' = "skip"
          \/ lastOp' = "tick" /\ vm.remainingSeconds = 1
     /\ lastOp' \in {"start", "stop"} =>
          vm'.remainingSeconds = vm.remainingSeconds
     /\ vm'.remainingSeconds < vm.remainingSeconds =>
          \/ /\ lastOp' = "tick"
             /\ vm.state = "RUNNING"
             /\ vm'.remainingSeconds = vm.remainingSeconds - 1
          \/ /\ lastOp' \in {"skip", "reset"}
             /\ vm'.remainingSeconds = TotalSeconds(vm'.currentMode, vm'.settings)
          \/ /\ lastOp' = "updateSettings"
             /\ vm.state = "STOPPED"
             /\ vm'.remainingSeconds = TotalSeconds(vm'.currentMode, vm'.settings)]_vars

\* a stopped work countdown loaded under the longest duration has been cut
\* to one minute by an updateSettings
C36_Witness ==
  /\ lastOp = "updateSettings"
  /\ ~wasRunning
  /\ vm.currentMode = "WORK"
  /\ requested.workDuration = 1
  /\ vm.remainingSeconds = SecondsPerMinute
  /\ vm.remainingSeconds < MaxMinutes * SecondsPerMinute

(* C37: updateSettings called while STOPPED on a paused countdown, with     *)
(* remainingSeconds below the full duration, sets remainingSeconds to the   *)
(* full duration of the current mode even when the new settings equal the   *)
(* current ones: the progress of the pause is discarded.                    *)
C37_UpdateDiscardsPausedProgress ==
  [][( /\ lastOp' = "updateSettings"
       /\ vm.state = "STOPPED"
       /\ vm.remainingSeconds < TotalSeconds(vm.currentMode, vm.settings) ) =>
       /\ vm'.remainingSeconds = TotalSeconds(vm.currentMode, vm'.settings)
       /\ vm'.settings = vm.settings =>
            /\ vm'.remainingSeconds = TotalSeconds(vm.currentMode, vm.settings)
            /\ vm'.remainingSeconds > vm.remainingSeconds
       /\ vm'.currentMode = vm.currentMode
       /\ vm'.state = "STOPPED"]_vars

\* a paused rest countdown was given its own settings back, and shows the
\* full rest duration again
C37_Witness ==
  /\ lastOp = "updateSettings"
  /\ ~wasRunning
  /\ requested = vm.settings
  /\ vm.currentMode = "REST"
  /\ vm.remainingSeconds = TotalSeconds("REST", requested)
  /\ timerService.nextId > FirstTimerId

(* C38: if the timer is RUNNING and the timer service keeps delivering      *)
(* ticks to the registered handle while no command is issued, the timer     *)
(* eventually is STOPPED with the mode changed to the other one; the        *)
(* countdown cannot stall at a positive remainingSeconds, and the timer     *)
(* service is told to stop calling exactly at the tick that reaches 0.      *)
C38_CountdownCompletes ==
  /\ (vm.state = "RUNNING" /\ vm.currentMode = "WORK")
       ~> (vm.state = "STOPPED" /\ vm.currentMode = "REST")
  /\ (vm.state = "RUNNING" /\ vm.currentMode = "REST")
       ~> (vm.state = "STOPPED" /\ vm.currentMode = "WORK")
  /\ [][lastOp' = "tick" =>
          /\ vm.timerId \in timerService.timers
          /\ (vm.timerId \notin timerService'.timers) <=> (vm.remainingSeconds = 1)
          /\ (vm'.state = "STOPPED") <=> (vm.remainingSeconds = 1)]_vars

\* a work countdown started from its full duration was ticked to its end,
\* and the timer service holds no timer any more
C38_Witness ==
  /\ lastOp = "tick"
  /\ vm.state = "STOPPED"
  /\ vm.currentMode = "REST"
  /\ cycle.on /\ cycle.mode = "WORK"
  /\ cycle.ticks = TotalSeconds("WORK", vm.settings)
  /\ timerService.timers = {}

(* C39: in the SettingsViewModel that saves, a setter call that changes a   *)
(* field and leaves both drafts valid writes the draft to the store, makes  *)
(* it the original and emits settings-changed exactly once, so hasChanges   *)
(* is false afterwards; a setter call that leaves the draft invalid writes  *)
(* nothing to the store, keeps the original, emits nothing and leaves       *)
(* hasChanges true with the invalid value still in the draft.               *)
C39_SetterSavesValidDraft ==
  [][( /\ editorCall'.op \in {"autoSetWorkDuration", "autoSetRestDuration"}
       /\ Draft(editor') # Draft(editor) ) =>
       IF DraftValid(editor')
         THEN /\ AsDraft(storage') = Draft(editor')
              /\ editor'.originalSettings = storage'
              /\ editorCall'.emitted = 1
              /\ ~hasChanges(editor')
         ELSE /\ storage' = storage
              /\ editor'.originalSettings = editor.originalSettings
              /\ editorCall'.emitted = 0
              /\ hasChanges(editor')
              /\ editorCall'.value \in {editor'.workDuration, editor'.restDuration}
              /\ editorCall'.op = "autoSetWorkDuration" =>
                   editor'.workDuration = editorCall'.value
              /\ editorCall'.op = "autoSetRestDuration" =>
                   editor'.restDuration = editorCall'.value]_vars

\* a valid rest duration was set while the work draft was invalid: nothing
\* was written and nothing emitted
C39_Witness ==
  /\ editorCall.op = "autoSetRestDuration"
  /\ editorCall.before.restDuration # editor.restDuration
  /\ editor.restDuration \in PositiveIntegers
  /\ editor.workDuration \notin PositiveIntegers
  /\ editorCall.emitted = 0
  /\ hasChanges(editor)

====
